---- MODULE Spec2Model ----
(***************************************************************************)
(* Model of pdf_table_extractor.py: the dependency prober, the extractor   *)
(* object (extract_tables / save_to_excel) and the command-line driver.    *)
(*                                                                         *)
(* Three specifications share the definitions:                             *)
(*   Spec          an extractor object used through its two methods        *)
(*   SpecMain      one run of main()                                       *)
(*   SpecSanitize  the dropna chains of lines 66 and 122 applied to        *)
(*                 every DataFrame within the shape bounds                 *)
(***************************************************************************)
EXTENDS Integers, Sequences, FiniteSets, TLC

VARIABLES
    method,        \* self.method
    tables,        \* self.tables
    pc,            \* position inside extract_tables ("idle" outside a call)
    all_tables,    \* the local all_tables of the running call
    log,           \* history: one record per backend invoked by the running/last call
    ret,           \* value returned by the last finished extract_tables call
    calls,         \* number of extract_tables calls started on the object
    workbook,      \* worksheets written by the last save_to_excel since the last call began
    saveRet,       \* "none", or the value returned by the last save_to_excel
    mpc,           \* position inside the process running main()
    unavailable,   \* modules that cannot be imported in this environment
    args,          \* outcome of parse_args: "ok", "error" or "help" ("none" before)
    pdfExists,     \* outcome of os.path.exists(pdf_path): "yes" or "no" ("none" before)
    exitStatus,    \* process exit status, -1 while running
    printed,       \* messages printed by the prober and the driver
    fault,         \* TRUE when an exception left the process unhandled
    raw,           \* SpecSanitize: the DataFrame drawn initially
    frame,         \* SpecSanitize: the DataFrame after the chains applied so far
    prev,          \* SpecSanitize: the DataFrame before the last chain
    applied        \* SpecSanitize: the chains applied so far

objVars  == <<method, tables, pc, all_tables, log, ret, calls, workbook, saveRet>>
mainVars == <<mpc, unavailable, args, pdfExists, exitStatus, printed, fault>>
sanVars  == <<raw, frame, prev, applied>>
vars     == <<method, tables, pc, all_tables, log, ret, calls, workbook, saveRet,
              mpc, unavailable, args, pdfExists, exitStatus, printed, fault,
              raw, frame, prev, applied>>

(***************************************************************************)
(* Bounds                                                                  *)
(***************************************************************************)
MaxRows  == 2    \* rows of a DataFrame drawn in SpecSanitize
MaxCols  == 2    \* columns of a DataFrame drawn in SpecSanitize
MaxApply == 2    \* dropna chains applied in a row in SpecSanitize
MaxRaw   == 2    \* raw tables one backend call yields
MaxCalls == 2    \* extract_tables calls on one extractor object

Min(a, b) == IF a < b THEN a ELSE b
Max(a, b) == IF a > b THEN a ELSE b

(***************************************************************************)
(* Cell values.  A cell is missing (NaN / None), a number or a text.       *)
(* `text` is what str() prints for the value.                              *)
(***************************************************************************)
NaN    == [kind |-> "nan", text |-> ""]
Str(s) == [kind |-> "str", text |-> s]
Num(s) == [kind |-> "num", text |-> s]

\* pandas isna(): only NaN / None are missing; "" is a value
IsNa(c) == c.kind = "nan"

\* a 60-character text, longer than the width cap
LongText == "xxxxxxxxxxxxxxxxxxxxxxxxxxxxxxxxxxxxxxxxxxxxxxxxxxxxxxxxxxxx"

DigitText == <<"0", "1", "2", "3", "4", "5", "6", "7", "8", "9">>

\* str(n) for a natural number
RECURSIVE IntText(_)
IntText(n) == IF n < 10 THEN DigitText[n + 1]
              ELSE IntText(n \div 10) \o DigitText[(n % 10) + 1]

\* pandas RangeIndex: the labels 0 .. n-1
RangeIndex(n) == [k \in 1..n |-> Num(IntText(k - 1))]

(***************************************************************************)
(* DataFrame: row labels, column labels and a grid of cells.               *)
(***************************************************************************)
\* pd.DataFrame(table_data): default row and column labels
DataFrame(grid) ==
    [index   |-> RangeIndex(Len(grid)),
     columns |-> RangeIndex(IF Len(grid) = 0 THEN 0 ELSE Len(grid[1])),
     data    |-> grid]

\* a frame whose column labels were read from the document (tabula)
LabelledFrame(labels, grid) ==
    [index |-> RangeIndex(Len(grid)), columns |-> labels, data |-> grid]

\* the ascending positions 1..n that satisfy keep
Positions(n, keep) ==
    LET F[i \in 0..n] ==
            IF i = 0 THEN <<>>
            ELSE IF i \in keep THEN Append(F[i - 1], i) ELSE F[i - 1]
    IN  F[n]

Pick(s, pos) == [k \in 1..Len(pos) |-> s[pos[k]]]

\* df.dropna(how='all'): drop the rows whose cells are all missing
DropNaRows(df) ==
    LET keep == {i \in 1..Len(df.data) :
                    \E j \in 1..Len(df.columns) : ~IsNa(df.data[i][j])}
        pos  == Positions(Len(df.data), keep)
    IN  [index |-> Pick(df.index, pos), columns |-> df.columns,
         data  |-> Pick(df.data, pos)]

\* df.dropna(axis=1, how='any') : the chain with the wrong `how`
DropNaColsAny(df) ==
    LET keep == {j \in 1..Len(df.columns) :
                    \A i \in 1..Len(df.data) : ~IsNa(df.data[i][j])}
        pos  == Positions(Len(df.columns), keep)
    IN  [index |-> df.index, columns |-> Pick(df.columns, pos),
         data  |-> [i \in 1..Len(df.data) |-> Pick(df.data[i], pos)]]

\* df.dropna(axis=1, how='all'): drop the columns whose cells are all missing
DropNaCols(df) ==
    LET keep == {j \in 1..Len(df.columns) :
                    \E i \in 1..Len(df.data) : ~IsNa(df.data[i][j])}
        pos  == Positions(Len(df.columns), keep)
    IN  [index |-> df.index, columns |-> Pick(df.columns, pos),
         data  |-> [i \in 1..Len(df.data) |-> Pick(df.data[i], pos)]]

\* df.reset_index(drop=True)
ResetIndex(df) == [df EXCEPT !.index = RangeIndex(Len(df.data))]

\* the chain of lines 66, 82 and 102
DropNaChain(df) == DropNaCols(DropNaRows(df))

\* the chain of line 122
Sanitize(df) == ResetIndex(DropNaCols(DropNaRows(df)))

\* len(df) and df.empty
FrameLen(df) == Len(df.data)
IsEmpty(df)  == Len(df.data) = 0 \/ Len(df.columns) = 0

\* what a frame holds, whatever its row labels
Content(df) == [columns |-> df.columns, data |-> df.data]

(***************************************************************************)
(* SpecSanitize: the chains applied to every frame within the bounds.      *)
(***************************************************************************)
CellValues == {NaN, Str(""), Str("ab")}

Grids == UNION {[1..r -> [1..c -> CellValues]] : r \in 0..MaxRows, c \in 1..MaxCols}

RawFrames == {DataFrame(g) : g \in Grids}

NoFrame == DataFrame(<<>>)

ObjIdle ==
    /\ method = "auto" /\ tables = <<>> /\ pc = "idle" /\ all_tables = <<>>
    /\ log = <<>> /\ ret = <<>> /\ calls = 0 /\ workbook = <<>>
    /\ saveRet = "none"

MainIdle ==
    /\ mpc = "lib" /\ unavailable = {} /\ args = "none" /\ pdfExists = "none"
    /\ exitStatus = -1 /\ printed = <<>> /\ fault = FALSE

SanIdle == raw = NoFrame /\ frame = NoFrame /\ prev = NoFrame /\ applied = <<>>

InitSanitize ==
    /\ ObjIdle /\ MainIdle
    /\ raw \in RawFrames
    /\ frame = raw /\ prev = raw /\ applied = <<>>

\* line 66: table = table.dropna(how='all').dropna(axis=1, how='all')
ApplyExtractChain ==
    /\ Len(applied) < MaxApply
    /\ frame' = DropNaChain(frame)
    /\ prev' = frame
    /\ applied' = Append(applied, "extract")
    /\ UNCHANGED <<raw, objVars, mainVars>>

\* line 122: the same chain followed by reset_index(drop=True)
ApplySaveChain ==
    /\ Len(applied) < MaxApply
    /\ frame' = Sanitize(frame)
    /\ prev' = frame
    /\ applied' = Append(applied, "save")
    /\ UNCHANGED <<raw, objVars, mainVars>>

NextSanitize == ApplyExtractChain \/ ApplySaveChain

SpecSanitize == InitSanitize /\ [][NextSanitize]_vars

\* C9: the sanitizer is idempotent: a chain applied to the result of a chain
\* changes nothing of what the table holds, and the same chain applied twice
\* in a row gives exactly the frame it gave once (row labels included).
C9_Idempotent ==
    Len(applied) >= 2 =>
        /\ Content(frame) = Content(prev)
        /\ (applied[Len(applied)] = applied[Len(applied) - 1] => frame = prev)

\* a frame that lost a row and a column to the first chain and went through
\* the save chain twice
C9_Witness ==
    /\ Len(applied) >= 2
    /\ applied[Len(applied)] = "save" /\ applied[Len(applied) - 1] = "save"
    /\ FrameLen(frame) >= 1
    /\ FrameLen(frame) < FrameLen(raw)
    /\ Len(frame.columns) < Len(raw.columns)

(***************************************************************************)
(* The documents the backends are run on.  Each backend call yields up to  *)
(* MaxRaw raw tables and may raise after any number of them.               *)
(***************************************************************************)
Methods  == {"auto", "tabula", "camelot", "pdfplumber"}

A  == Str("ab")
E  == Str("")
Z  == Num("0")
LT == Str(LongText)

\* tabula.read_pdf: DataFrames whose column labels come from the document
\* and whose blank cells are NaN; numbers are parsed
TabulaLabels == <<Str("Item"), Str("Qty")>>
TabulaTables ==
    {LabelledFrame(TabulaLabels, g) :
        g \in { <<>>,                                \* header only: table.empty
                << <<NaN, NaN>> >>,                  \* one blank row
                << <<A, NaN>> >>,                    \* one row, one blank column
                << <<NaN, NaN>>, <<A, Z>> >>,        \* a blank row above a data row
                << <<A, Z>>, <<LT, Z>> >> }}

\* camelot: table.df holds the text of every cell, "" for a blank one
CamelotTables ==
    {DataFrame(g) :
        g \in { << <<A, A>> >>,
                << <<A, E>>, <<E, E>> >>,            \* a blank row below a data row
                << <<E, A>>, <<E, LT>> >> }}         \* a blank column

\* pdfplumber: page.extract_tables() gives lists of rows of str or None
PlumberTables ==
    { <<>>,
      << <<A, A>> >>,
      << <<A, NaN>>, <<NaN, NaN>> >>,
      << <<A, NaN>>, <<E, NaN>> >>,
      << <<E, A>>, <<NaN, NaN>>, <<E, E>> >> }

SeqsUpTo(S, n) == UNION {[1..k -> S] : k \in 0..n}

\* -1: the backend does not raise; k >= 0: it raises once k raw tables are done
\* (k = 0: the import, read_pdf or open call itself raises)
FailPoints(raws) == -1 .. Len(raws)

Done(raws, fail) == IF fail < 0 THEN raws ELSE SubSeq(raws, 1, fail)

(***************************************************************************)
(* The three per-table loops of extract_tables                             *)
(***************************************************************************)
\* lines 65-68
TabulaKeep(acc, table) ==
    IF IsEmpty(table) THEN acc
    ELSE LET t == DropNaChain(table)
         IN  IF FrameLen(t) > 0 THEN Append(acc, t) ELSE acc

\* lines 82-84
CamelotKeep(acc, table) ==
    LET df == DropNaChain(table)
    IN  IF FrameLen(df) > 1 THEN Append(acc, df) ELSE acc

\* lines 100-104
PlumberKeep(acc, table_data) ==
    IF Len(table_data) > 1
    THEN LET df == DropNaChain(DataFrame(table_data))
         IN  IF FrameLen(df) > 1 THEN Append(acc, df) ELSE acc
    ELSE acc

\* lines 64, 81, 97-99: the loops over what the library returned
TabulaLoop(acc, raws) ==
    LET F[i \in 0..Len(raws)] == IF i = 0 THEN acc ELSE TabulaKeep(F[i - 1], raws[i])
    IN  F[Len(raws)]

CamelotLoop(acc, raws) ==
    LET F[i \in 0..Len(raws)] == IF i = 0 THEN acc ELSE CamelotKeep(F[i - 1], raws[i])
    IN  F[Len(raws)]

PlumberLoop(acc, raws) ==
    LET F[i \in 0..Len(raws)] == IF i = 0 THEN acc ELSE PlumberKeep(F[i - 1], raws[i])
    IN  F[Len(raws)]

Entry(b, before, after, fail) ==
    [backend |-> b, before |-> Len(before), appended |-> Len(after) - Len(before),
     raised |-> fail >= 0]

(***************************************************************************)
(* extract_tables                                                          *)
(***************************************************************************)
\* line 55
TabulaGuard == method \in {"auto", "tabula"}

\* line 76 without `and not all_tables`
CamelotGuardNoShortCircuit == method \in {"auto", "camelot"}

\* line 76
CamelotGuard == method \in {"auto", "camelot"} /\ all_tables = <<>>

\* line 92
PlumberGuard == method \in {"auto", "pdfplumber"} /\ all_tables = <<>>

\* lines 49-52: the call starts with an empty local list
ExtractBegin ==
    /\ pc' = "tabula"
    /\ all_tables' = <<>>
    /\ log' = <<>>
    /\ calls' = calls + 1
    /\ saveRet' = "none"
    /\ workbook' = <<>>
    /\ UNCHANGED <<method, tables, ret>>

\* lines 55-73
Tabula ==
    /\ pc = "tabula"
    /\ \/ /\ ~TabulaGuard
          /\ pc' = "camelot"
          /\ UNCHANGED <<all_tables, log, ret>>
       \/ /\ TabulaGuard
          /\ \E raws \in SeqsUpTo(TabulaTables, MaxRaw) : \E fail \in FailPoints(raws) :
                LET after == TabulaLoop(all_tables, Done(raws, fail)) IN
                /\ all_tables' = after
                /\ log' = Append(log, Entry("tabula", all_tables, after, fail))
                /\ IF fail >= 0 /\ method = "tabula"
                   THEN pc' = "idle" /\ ret' = <<>>            \* line 73: return []
                   ELSE pc' = "camelot" /\ UNCHANGED ret
    /\ UNCHANGED <<method, tables, calls, workbook, saveRet, mainVars, sanVars>>

\* lines 76-89
Camelot ==
    /\ pc = "camelot"
    /\ \/ /\ ~CamelotGuard
          /\ pc' = "pdfplumber"
          /\ UNCHANGED <<all_tables, log, ret>>
       \/ /\ CamelotGuard
          /\ \E raws \in SeqsUpTo(CamelotTables, MaxRaw) : \E fail \in FailPoints(raws) :
                LET after == CamelotLoop(all_tables, Done(raws, fail)) IN
                /\ all_tables' = after
                /\ log' = Append(log, Entry("camelot", all_tables, after, fail))
                /\ IF fail >= 0 /\ method = "camelot"
                   THEN pc' = "idle" /\ ret' = <<>>            \* line 89: return []
                   ELSE pc' = "pdfplumber" /\ UNCHANGED ret
    /\ UNCHANGED <<method, tables, calls, workbook, saveRet, mainVars, sanVars>>

\* lines 92-107: the except clause only prints
Pdfplumber ==
    /\ pc = "pdfplumber"
    /\ \/ /\ ~PlumberGuard
          /\ UNCHANGED <<all_tables, log>>
       \/ /\ PlumberGuard
          /\ \E raws \in SeqsUpTo(PlumberTables, MaxRaw) : \E fail \in FailPoints(raws) :
                LET after == PlumberLoop(all_tables, Done(raws, fail)) IN
                /\ all_tables' = after
                /\ log' = Append(log, Entry("pdfplumber", all_tables, after, fail))
    /\ pc' = "return"
    /\ UNCHANGED <<method, tables, ret, calls, workbook, saveRet, mainVars, sanVars>>

\* lines 109-110
Return ==
    /\ pc = "return"
    /\ tables' = all_tables
    /\ ret' = all_tables
    /\ pc' = "idle"
    /\ UNCHANGED <<method, all_tables, log, calls, workbook, saveRet, mainVars, sanVars>>

(***************************************************************************)
(* save_to_excel                                                           *)
(***************************************************************************)
\* line 121: the longest worksheet name the format allows
SheetNameLimit == 31

\* line 133: the widest column
MaxWidth == 50

\* line 133: the room added to the longest text
Padding == 2

\* decimal digits of a natural number, one character each
RECURSIVE Digits(_)
Digits(n) == IF n < 10 THEN <<DigitText[n + 1]>>
             ELSE Append(Digits(n \div 10), DigitText[(n % 10) + 1])

\* line 121: f"Table_{i+1}"[:31]; i is the 1-based position of the table
SheetName(i) ==
    LET name == <<"T", "a", "b", "l", "e", "_">> \o Digits(i)
    IN  SubSeq(name, 1, Min(Len(name), SheetNameLimit))

\* to_excel writes a missing value as the empty text (na_rep='')
CellValue(c) == IF IsNa(c) THEN Str("") ELSE c

\* to_excel(index=False, header=False): the data rows only
ToExcelNoHeader(df) ==
    [r \in 1..Len(df.data) |->
        [j \in 1..Len(df.columns) |-> CellValue(df.data[r][j])]]

\* line 123: to_excel(index=False) writes the column labels as the first
\* worksheet row (header=True is the default), then the data rows
ToExcel(df) ==
    <<df.columns>> \o [r \in 1..Len(df.data) |->
                          [j \in 1..Len(df.columns) |-> CellValue(df.data[r][j])]]

\* line 131: `if cell.value:` -- None, "", 0 and 0.0 are skipped
Truthy(c) ==
    \/ c.kind = "str" /\ c.text # ""
    \/ c.kind = "num" /\ c.text \notin {"0", "0.0"}

\* lines 128-133
ColumnWidth(rows, j) ==
    LET M[r \in 0..Len(rows)] ==
            IF r = 0 THEN 0
            ELSE IF Truthy(rows[r][j]) THEN Max(M[r - 1], Len(rows[r][j].text))
                 ELSE M[r - 1]
    IN  Min(M[Len(rows)] + Padding, MaxWidth)

\* lines 121-133: one worksheet
Worksheet(i, table) ==
    LET df   == Sanitize(table)
        rows == ToExcel(df)
    IN  [name   |-> SheetName(i),
         rows   |-> rows,
         widths |-> [j \in 1..Len(df.columns) |-> ColumnWidth(rows, j)]]

\* lines 112-140.  ok = FALSE: the writer raises (the path cannot be written)
SaveToExcel(ok) ==
    IF tables = <<>>
    THEN saveRet' = "False" /\ UNCHANGED workbook                \* line 116
    ELSE IF ok
         THEN /\ workbook' = [i \in 1..Len(tables) |-> Worksheet(i, tables[i])]
              /\ saveRet' = "True"
         ELSE saveRet' = "False" /\ UNCHANGED workbook           \* line 140

(***************************************************************************)
(* Spec: an extractor object and the calls made on it                      *)
(***************************************************************************)
\* lines 45-47
Init ==
    /\ method \in Methods
    /\ tables = <<>>
    /\ pc = "idle" /\ all_tables = <<>> /\ log = <<>> /\ ret = <<>> /\ calls = 0
    /\ workbook = <<>> /\ saveRet = "none"
    /\ MainIdle /\ SanIdle

ExtractCall ==
    /\ pc = "idle"
    /\ calls < MaxCalls
    /\ ExtractBegin
    /\ UNCHANGED <<mainVars, sanVars>>

SaveCall ==
    /\ pc = "idle"
    /\ \E ok \in BOOLEAN : SaveToExcel(ok)
    /\ UNCHANGED <<method, tables, pc, all_tables, log, ret, calls, mainVars, sanVars>>

Next == ExtractCall \/ Tabula \/ Camelot \/ Pdfplumber \/ Return \/ SaveCall

Spec == Init /\ [][Next]_vars

(***************************************************************************)
(* SpecMain: one run of the script                                         *)
(***************************************************************************)
\* lines 18-24: the probed modules in dictionary order, and their packages
Modules == <<"pandas", "openpyxl", "tabula", "camelot", "pdfplumber">>

Package(mod) ==
    CASE mod = "pandas"     -> "pandas"
      [] mod = "openpyxl"   -> "openpyxl"
      [] mod = "tabula"     -> "tabula-py"
      [] mod = "camelot"    -> "camelot-py"
      [] mod = "pdfplumber" -> "pdfplumber"

\* lines 11-12: the modules imported when the script is loaded
LoadImports == {"pandas", "openpyxl"}

\* lines 26-31: missing_packages after the loop
MissingPackages ==
    LET F[i \in 0..Len(Modules)] ==
            IF i = 0 THEN <<>>
            ELSE IF Modules[i] \in unavailable
                 THEN Append(F[i - 1], Package(Modules[i]))
                 ELSE F[i - 1]
    IN  F[Len(Modules)]

Msg(m, p) == [msg |-> m, pkgs |-> p]

Exit(status) == exitStatus' = status /\ mpc' = "exited"

InitMain ==
    /\ ObjIdle /\ SanIdle
    /\ unavailable \in SUBSET {Modules[i] : i \in 1..Len(Modules)}
    /\ mpc = "load" /\ args = "none" /\ pdfExists = "none"
    /\ exitStatus = -1 /\ printed = <<>> /\ fault = FALSE

\* lines 8-12: an import that fails here raises before main() is entered;
\* the interpreter prints the traceback and exits with status 1
Load ==
    /\ mpc = "load"
    /\ IF LoadImports \cap unavailable # {}
       THEN fault' = TRUE /\ Exit(1)
       ELSE mpc' = "probe" /\ UNCHANGED <<fault, exitStatus>>
    /\ UNCHANGED <<unavailable, args, pdfExists, printed, objVars, sanVars>>

\* lines 15-40: check_and_install_dependencies
Probe ==
    /\ mpc = "probe"
    /\ LET missing == MissingPackages IN
       IF missing # <<>>
       THEN /\ printed' = printed \o <<Msg("Missing packages", missing),
                                       Msg("pip3 install --user", missing),
                                       Msg("pip3 install --user", <<missing[1]>>)>>
            /\ Exit(1)
       ELSE mpc' = "parse" /\ UNCHANGED <<printed, exitStatus>>
    /\ UNCHANGED <<unavailable, args, pdfExists, fault, objVars, sanVars>>

\* lines 151-156: argparse exits with status 2 on a command line it rejects
\* and with status 0 after printing the help
Parse ==
    /\ mpc = "parse"
    /\ \E outcome \in {"ok", "error", "help"} : \E m \in Methods :
          /\ args' = outcome
          /\ CASE outcome = "ok"    -> mpc' = "exists" /\ method' = m /\ UNCHANGED exitStatus
               [] outcome = "error" -> Exit(2) /\ UNCHANGED method
               [] outcome = "help"  -> Exit(0) /\ UNCHANGED method
    /\ UNCHANGED <<unavailable, pdfExists, printed, fault, sanVars,
                   tables, pc, all_tables, log, ret, calls, workbook, saveRet>>

\* lines 158-161
Exists ==
    /\ mpc = "exists"
    /\ \E found \in BOOLEAN :
          IF found
          THEN pdfExists' = "yes" /\ mpc' = "extract" /\ UNCHANGED <<printed, exitStatus>>
          ELSE /\ pdfExists' = "no"
               /\ printed' = Append(printed, Msg("File not found", <<>>))
               /\ Exit(1)
    /\ UNCHANGED <<unavailable, args, fault, objVars, sanVars>>

\* lines 166-167: the extractor is constructed and extract_tables is entered
MainExtract ==
    /\ mpc = "extract"
    /\ pc = "idle"
    /\ ExtractBegin
    /\ mpc' = "extracting"
    /\ UNCHANGED <<unavailable, args, pdfExists, exitStatus, printed, fault, sanVars>>

\* line 169 with the test dropped
NoTablesNever == FALSE

\* line 169: `if not tables`
NoTables == ret = <<>>

\* lines 169-174
MainCheck ==
    /\ mpc = "extracting"
    /\ pc = "idle"
    /\ IF NoTables
       THEN /\ printed' = printed \o <<Msg("No tables found in the PDF!", <<>>),
                                       Msg("Try another method", <<>>)>>
            /\ Exit(1)
       ELSE mpc' = "save" /\ UNCHANGED <<printed, exitStatus>>
    /\ UNCHANGED <<unavailable, args, pdfExists, fault, objVars, sanVars>>

\* line 177: the value save_to_excel returns is dropped
MainSave ==
    /\ mpc = "save"
    /\ \E ok \in BOOLEAN : SaveToExcel(ok)
    /\ mpc' = "summary"
    /\ UNCHANGED <<unavailable, args, pdfExists, exitStatus, printed, fault, sanVars,
                   method, tables, pc, all_tables, log, ret, calls>>

\* lines 179-182, then main returns and the process ends with status 0
MainSummary ==
    /\ mpc = "summary"
    /\ printed' = Append(printed, Msg("Extraction Summary", <<>>))
    /\ Exit(0)
    /\ UNCHANGED <<unavailable, args, pdfExists, fault, objVars, sanVars>>

NextMain ==
    \/ Load \/ Probe \/ Parse \/ Exists \/ MainExtract
    \/ Tabula \/ Camelot \/ Pdfplumber \/ Return
    \/ MainCheck \/ MainSave \/ MainSummary

SpecMain == InitMain /\ [][NextMain]_vars

(***************************************************************************)
(* Properties of extract_tables (checked under Spec)                       *)
(***************************************************************************)
Order == <<"tabula", "camelot", "pdfplumber">>

Finished == pc = "idle" /\ calls > 0

\* C1: with method auto the backends are invoked in the order tabula,
\* camelot, pdfplumber, each at most once, and a backend is invoked only while
\* the accumulated list is still empty; once tabula has kept a table neither
\* camelot nor pdfplumber is invoked.
C1_AutoOrder ==
    method = "auto" =>
        /\ Len(log) <= 3
        /\ \A i \in 1..Len(log) :
              /\ log[i].backend = Order[i]
              /\ log[i].before = 0
              /\ \A j \in 1..(i - 1) : log[j].appended = 0
        /\ (Len(log) >= 1 /\ log[1].appended >= 1 => Len(log) = 1)

\* an auto call that returned tables kept by tabula, the only backend invoked
C1_Witness ==
    /\ method = "auto" /\ Finished
    /\ Len(log) = 1 /\ log[1].backend = "tabula" /\ log[1].appended >= 1
    /\ ret # <<>>

\* C2: a forced backend that raises at any point makes extract_tables return
\* the empty list, and no other backend is invoked.
C2_ForcedFailureEmpty ==
    (method # "auto" /\ Finished /\ \E i \in 1..Len(log) : log[i].raised) =>
        /\ ret = <<>>
        /\ Len(log) = 1 /\ log[1].backend = method

\* C3: with method auto a backend that raises at any point contributes no
\* table to the result, and the next backend in the order is still invoked.
C3_AutoFailureIsZeroTables ==
    (method = "auto" /\ Finished) =>
        \A i \in 1..Len(log) :
            log[i].raised =>
                /\ log[i].appended = 0
                /\ (i < 3 => Len(log) > i /\ log[i + 1].backend = Order[i + 1])

\* a cell a reader of the worksheet sees as empty: missing, or the empty text
Blank(c) == IsNa(c) \/ (c.kind = "str" /\ c.text = "")

SanitizedTable(df) ==
    /\ FrameLen(df) >= 1
    /\ \A r \in 1..Len(df.data) : \E j \in 1..Len(df.columns) : ~Blank(df.data[r][j])
    /\ \A j \in 1..Len(df.columns) : \E r \in 1..Len(df.data) : ~Blank(df.data[r][j])

\* C7: every table extract_tables returns and every table save_to_excel
\* writes has at least one data row, a non-empty cell in each row and a
\* non-empty cell in each column.
C7_TablesSanitized ==
    /\ Finished => \A i \in 1..Len(ret) : SanitizedTable(ret[i])
    /\ saveRet = "True" => \A i \in 1..Len(tables) : SanitizedTable(Sanitize(tables[i]))

\* C10: once a call of extract_tables has returned, self.tables is the list
\* it returned; so after a call that returned the empty list save_to_excel
\* writes nothing and does not return True.
C10_StoredIsReturned ==
    Finished =>
        /\ tables = ret
        /\ (ret = <<>> => saveRet # "True" /\ workbook = <<>>)

(***************************************************************************)
(* Properties of save_to_excel (checked under Spec)                        *)
(***************************************************************************)
TableName(i) == <<"T", "a", "b", "l", "e", "_", DigitText[i + 1]>>

\* the claim as stated in C6: no header row, worksheet i holds exactly the
\* data rows of table i
C6_NoHeaderRow ==
    saveRet = "True" =>
        /\ Len(workbook) = Len(tables)
        /\ \A i \in 1..Len(workbook) :
              /\ workbook[i].name = TableName(i)
              /\ Len(workbook[i].rows) = FrameLen(tables[i])
              /\ \A r \in 1..Len(workbook[i].rows) :
                    workbook[i].rows[r] =
                        [j \in 1..Len(tables[i].columns) |-> CellValue(tables[i].data[r][j])]

\* C6 (amended): after a successful save_to_excel over T1..Tn the workbook has
\* exactly n worksheets, the i-th named Table_i (at most 31 characters); the
\* first row of worksheet i holds the column labels of Ti and the rows below
\* it are exactly the data rows of Ti, so the worksheet has one row more than
\* Ti has data rows.
C6_HeaderThenRows ==
    saveRet = "True" =>
        /\ Len(workbook) = Len(tables)
        /\ \A i \in 1..Len(workbook) :
              /\ i < 10 /\ workbook[i].name = TableName(i)
              /\ Len(workbook[i].name) <= 31
              /\ Len(workbook[i].rows) = 1 + FrameLen(tables[i])
              /\ workbook[i].rows[1] = tables[i].columns
              /\ \A r \in 1..FrameLen(tables[i]) :
                    workbook[i].rows[r + 1] =
                        [j \in 1..Len(tables[i].columns) |-> CellValue(tables[i].data[r][j])]

\* a workbook of two worksheets, one of them over a table of two data rows
C6_Witness ==
    /\ saveRet = "True"
    /\ Len(workbook) >= 2
    /\ \E i \in 1..Len(tables) : FrameLen(tables[i]) >= 2

\* the longest printed text among all the cells of column j
LongestText(rows, j) ==
    LET M[r \in 0..Len(rows)] ==
            IF r = 0 THEN 0 ELSE Max(M[r - 1], Len(rows[r][j].text))
    IN  M[Len(rows)]

\* C8: the width of every column of every written worksheet is
\* min(L + 2, 50), L the longest printed text over all cells of the column.
C8_WidthFromAllCells ==
    saveRet = "True" =>
        \A i \in 1..Len(workbook) : \A j \in 1..Len(workbook[i].widths) :
            /\ workbook[i].widths[j] = Min(LongestText(workbook[i].rows, j) + 2, 50)
            /\ workbook[i].widths[j] >= 2 /\ workbook[i].widths[j] <= 50

(***************************************************************************)
(* Properties of main (checked under SpecMain)                             *)
(***************************************************************************)
Exited        == mpc = "exited"
ModuleMissing == unavailable # {}
FileMissing   == pdfExists = "no"
ZeroTables    == Finished /\ ret = <<>>
WriterInvoked == saveRet # "none"

\* the claim as stated in C4: the exit status is 1 or 0
C4_ExitOneOrZero ==
    Exited =>
        /\ (exitStatus = 1 <=> (ModuleMissing \/ FileMissing \/ ZeroTables))
        /\ (~(ModuleMissing \/ FileMissing \/ ZeroTables) => exitStatus = 0)
        /\ (exitStatus = 1 => ~WriterInvoked)

\* C4 (amended): the exit status is 1 exactly when a required module is
\* missing, the input file does not exist or extraction returned no table; it
\* is 2 exactly when the argument parser rejects the command line; in every
\* other run it is 0, also when save_to_excel fails to write; and in a run
\* that exits with a non-zero status the writer is never invoked.
C4_ExitStatus ==
    Exited =>
        /\ (exitStatus = 1 <=> (ModuleMissing \/ FileMissing \/ ZeroTables))
        /\ (exitStatus = 2 <=> args = "error")
        /\ (~(ModuleMissing \/ FileMissing \/ ZeroTables) /\ args # "error"
                => exitStatus = 0)
        /\ (exitStatus # 0 => ~WriterInvoked /\ workbook = <<>>)

\* a run that found tables, failed to write them and still exited with 0
C4_Witness ==
    /\ Exited /\ exitStatus = 0
    /\ ret # <<>> /\ saveRet = "False"

\* C5: whichever of the five modules cannot be imported, the run prints the
\* aggregated list of missing packages with the two installation suggestions
\* and ends with a non-zero status before any backend is invoked, and no
\* import failure leaves the process as an unhandled exception.
C5_MissingModuleReported ==
    (Exited /\ ModuleMissing) =>
        /\ ~fault
        /\ exitStatus # 0
        /\ calls = 0 /\ log = <<>>
        /\ printed = <<Msg("Missing packages", MissingPackages),
                       Msg("pip3 install --user", MissingPackages),
                       Msg("pip3 install --user", <<MissingPackages[1]>>)>>

====
